---------------------------- MODULE Spec2Model ----------------------------
(***************************************************************************)
(* Model of battery_monitor.py: the UPS battery monitor loop.              *)
(*                                                                         *)
(* The script is one sequential loop.  Each action below is one statement  *)
(* group of the loop body (the source lines are given at each action), and *)
(* pc is the position of the script.                                       *)
(*                                                                         *)
(* Units.  The script computes with floats; the model computes the same    *)
(* quantities exactly, in integers:                                        *)
(*   bus voltage     millivolts          (3.0 V  = 3000)                   *)
(*   current         milliamps           (as ina219.current)               *)
(*   derived power   microwatts          (bus_voltage * (current / 1000)   *)
(*                                        watts = mV * mA microwatts)      *)
(*   percentages     units of 1/PctDen % ((v - 3.0) / (4.1 - 3.0) * 100    *)
(*                                        = (mV - 3000) * 100 / 1100)      *)
(* The comparisons of lines 142, 147, 155 and 158 are the same comparisons  *)
(* on these integers for every reading in millivolts and milliamps.  The   *)
(* comparison of line 117 is not: in floats (4.1 - 3.0) is                 *)
(* 1.0999999999999996, and at 4.078 V, where the exact percentage is 98,   *)
(* the script computes 98.00000000000006 (see ClampPercent).               *)
(***************************************************************************)
EXTENDS Integers, Sequences, FiniteSets

VARIABLES
    ina219,              \* the sensor's registers (environment)
    pc,                  \* position of the script
    bus_voltage,         \* line 111
    current,             \* line 113
    percent,             \* lines 116-118 (display only)
    battery_percentage,  \* line 136
    get_power_calc,      \* line 140
    i,                   \* loop variable of battery_low, line 95
    alerts,              \* notify-send invocations of the current cycle
    console,             \* print() output of the current cycle
    notify_rc,           \* exit status of the last notify-send (discarded)
    slept,               \* seconds slept in the current cycle
    shutdown_calls       \* invocations of "sudo shutdown -h now"

vars == <<ina219, pc, bus_voltage, current, percent, battery_percentage,
          get_power_calc, i, alerts, console, notify_rc, slept,
          shutdown_calls>>

\* What the script itself holds or has done (everything but the sensor).
progvars == <<pc, bus_voltage, current, percent, battery_percentage,
              get_power_calc, i, alerts, console, notify_rc, slept,
              shutdown_calls>>

----------------------------------------------------------------------------
\* User variables and literals of the script.

\* line 46: battery_is_low = 25.00
battery_is_low == 25
\* line 47: battery_shutdown = 10.00
battery_shutdown == 10
\* line 48: battery_check_interval = 10
battery_check_interval == 10
\* line 79: the 3.0 of the UPS HAT (C) profile, in mV
VEmpty == 3000
\* line 79: the 4.1 of the UPS HAT (C) profile, in mV
VFull == 4100
\* line 78 (commented out): the UPS S3 profile, in mV
VEmptyS3 == 9000
VFullS3 == 12600
\* line 117: if(percent > 98):percent = 100
PercentFullCut == 98
\* line 142: get_power_calc <= -5.00, in microwatts
OnBatteryPower == -5000000
\* line 158: get_power_calc <=-1.00, in microwatts
ConfirmPower == -1000000
\* line 95: range(10, 0, -3)
CountdownStart == 10
CountdownStep == 3
\* line 99: time.sleep(3)
CountdownSleep == 3

\* Denominator of every percentage of the model: (4.1 - 3.0), in mV.
PctDen == VFull - VEmpty

\* An integer percentage p (a threshold of the script) in the model's unit.
Pct(p) == p * PctDen

----------------------------------------------------------------------------
\* The readings the sensor is given in the model.

\* Steps of 500 mV below V_empty and of 100 mV above V_full that the
\* sensor is given.
MaxUnder == 1
MaxOver == 1

\* Below V_empty, V_empty, the two thresholds (3.11 V = 10 %, 3.275 V =
\* 25 %) and the value just above each, the voltage of the display cut
\* (4.078 V = 98 %), V_full, above V_full.
BusVoltages ==
    {VEmpty - 500 * k : k \in 1..MaxUnder}
      \cup {VEmpty, 3110, 3111, 3275, 3276, 4078, VFull}
      \cup {VFull + 100 * k : k \in 1..MaxOver}
\* Heavy discharge, moderate discharge, light discharge, idle, charging.
Currents == {-2000, -400, -100, 0, 300}
\* Exit statuses of notify-send: shown, or an error result.
ExitStatuses == {0, 1}

Readings == [bus_voltage : BusVoltages, current : Currents, overflow : BOOLEAN]

----------------------------------------------------------------------------
\* Pure computations of the script.

\* The UPS S3 formula of line 78, used where line 79 should be.
get_battery_percentage_S3(v) == ((v - VEmptyS3) * 100 * PctDen) \div (VFullS3 - VEmptyS3)

\* lines 77-79: ((bus_voltage - 3.0) / (4.1 - 3.0)) * 100, in 1/PctDen %.
get_battery_percentage(v) == (v - VEmpty) * 100

\* lines 116-118: the displayed percentage, clamped.  The float of line 116
\* is above 98 exactly when the exact percentage is 98 or more: at 4.078 V
\* it is 98.00000000000006, 1 mV below it is 97.9, and no other reading in
\* millivolts is within rounding of 98 (nor of 0, which 3.0 V gives exactly).
ClampPercent(v) ==
    LET raw == (v - VEmpty) * 100
        hi  == IF raw >= Pct(PercentFullCut) THEN Pct(100) ELSE raw
    IN  IF hi < 0 THEN 0 ELSE hi

\* line 140: bus_voltage * (current / 1000), in microwatts.
PowerCalc(v, c) == v * c

\* The "{battery_percentage:.2f}" of every alert message: the percentage
\* rounded to hundredths of a percent (no input of integer mV is a tie).
Fmt2(p) == (200 * p + PctDen) \div (2 * PctDen)

\* line 142 with ">=" for "<=".
OnBatteryCond_sign(pw) == pw >= OnBatteryPower
\* line 142
OnBatteryCond(pw) == pw <= OnBatteryPower
\* line 147 with "<" for "<=".
LowCond_strict(bp) == bp < Pct(battery_is_low)
\* line 147
LowCond(bp) == bp <= Pct(battery_is_low)
\* line 155
CriticalCond(bp) == bp <= Pct(battery_shutdown)

\* line 158 with "or" for "and".
ShutdownCond_or(bp, pw) == bp <= Pct(battery_shutdown) \/ pw <= ConfirmPower

\* line 158: battery_percentage <=battery_shutdown and get_power_calc <=-1.00
ShutdownCond(bp, pw) == bp <= Pct(battery_shutdown) /\ pw <= ConfirmPower

----------------------------------------------------------------------------
\* External effects.

Message(kind, n) == [kind |-> kind, pct |-> Fmt2(battery_percentage), n |-> n]

Alert(class, m) == [class |-> class, kind |-> m.kind, pct |-> m.pct, n |-> m.n]

\* lines 82-83: notify-send -t 2000 'Battery Alert' (auto-dismissing).
\* subprocess.run without check=True: the exit status is discarded.
send_alert(message) ==
    \E rc \in ExitStatuses :
        /\ alerts' = Append(alerts, Alert("info", message))
        /\ notify_rc' = rc

\* lines 86-87: notify-send --urgency=critical 'Battery Critical'.
send_critical_alert(message) ==
    \E rc \in ExitStatuses :
        /\ alerts' = Append(alerts, Alert("critical", message))
        /\ notify_rc' = rc

\* print(): one record per console line (n is the N of the countdown line).
Line(text, n) == [text |-> text, n |-> n]
print(text, n) == console' = Append(console, Line(text, n))

----------------------------------------------------------------------------
Init ==
    /\ ina219 \in Readings
    /\ pc = "read"
    /\ bus_voltage = 0          \* the locals are unassigned before line 111
    /\ current = 0
    /\ percent = 0
    /\ battery_percentage = 0
    /\ get_power_calc = 0
    /\ i = 0
    /\ alerts = <<>>
    /\ console = <<>>
    /\ notify_rc = 0
    /\ slept = 0
    /\ shutdown_calls = 0

\* The environment: the UPS's voltage, current and overflow flag change
\* while the script runs (in particular while it sleeps).  Once the script
\* has ended nothing observes the sensor any more.
SensorChange ==
    /\ pc \notin {"done", "crashed", "sensor_fault"}
    /\ \/ \E v \in BusVoltages \ {ina219.bus_voltage} :
              ina219' = [ina219 EXCEPT !.bus_voltage = v]
       \/ \E c \in Currents \ {ina219.current} :
              ina219' = [ina219 EXCEPT !.current = c]
       \/ ina219' = [ina219 EXCEPT !.overflow = ~ina219.overflow]
    /\ UNCHANGED progvars

\* ReadOverflow with the cycle's decisions skipped when the overflow flag is
\* set (as by a "continue" under line 131).
ReadOverflow_skips ==
    /\ pc = "read_overflow"
    /\ console' = IF ina219.overflow
                     THEN Append(console, Line("Internal Math Overflow Detected!", 0))
                     ELSE console
    /\ battery_percentage' = get_battery_percentage(bus_voltage)
    /\ get_power_calc' = PowerCalc(bus_voltage, current)
    /\ pc' = IF ina219.overflow THEN "sleep" ELSE "on_battery"
    /\ UNCHANGED <<ina219, bus_voltage, current, percent, i, alerts,
                   notify_rc, slept, shutdown_calls>>

\* ReadOverflow with line 136 keeping the lower of the estimate it holds and
\* the new one (an estimate that only ever falls).
ReadOverflow_hysteresis ==
    /\ pc = "read_overflow"
    /\ console' = IF ina219.overflow
                     THEN Append(console, Line("Internal Math Overflow Detected!", 0))
                     ELSE console
    /\ battery_percentage' =
          IF battery_percentage < get_battery_percentage(bus_voltage)
             THEN battery_percentage
             ELSE get_battery_percentage(bus_voltage)
    /\ get_power_calc' = PowerCalc(bus_voltage, current)
    /\ pc' = "on_battery"
    /\ UNCHANGED <<ina219, bus_voltage, current, percent, i, alerts,
                   notify_rc, slept, shutdown_calls>>

\* The top of the loop body reads the sensor in five property reads, each
\* one I2C transaction (lines 111, 112, 113, 114, 131); the sensor can
\* change between any two of them.  shunt_voltage (112) and power (114) are
\* only printed, so the model has a step at each read whose value the
\* script keeps: the bus voltage, the current, the overflow flag.

\* line 111.  alerts, console and slept record the cycle that starts here.
ReadBusVoltage ==
    /\ pc = "read"
    /\ bus_voltage' = ina219.bus_voltage
    /\ alerts' = <<>>
    /\ console' = <<>>
    /\ slept' = 0
    /\ pc' = "read_current"
    /\ UNCHANGED <<ina219, current, percent, battery_percentage,
                   get_power_calc, i, notify_rc, shutdown_calls>>

\* lines 112-128: the current is read (113), the displayed percentage is
\* computed from the bus voltage of line 111 and clamped (116-118), and the
\* readings are printed (121-128).
ReadCurrent ==
    /\ pc = "read_current"
    /\ current' = ina219.current
    /\ percent' = ClampPercent(bus_voltage)
    /\ console' = <<Line("Percent", 0)>>
    /\ pc' = "read_overflow"
    /\ UNCHANGED <<ina219, bus_voltage, battery_percentage, get_power_calc,
                   i, alerts, notify_rc, slept, shutdown_calls>>

\* lines 131-140: the overflow flag is read and reported, and the estimate
\* and the derived power are computed from the values of lines 111 and 113.
ReadOverflow ==
    /\ pc = "read_overflow"
    /\ console' = IF ina219.overflow
                     THEN Append(console, Line("Internal Math Overflow Detected!", 0))
                     ELSE console
    /\ battery_percentage' = get_battery_percentage(bus_voltage)
    /\ get_power_calc' = PowerCalc(bus_voltage, current)
    /\ pc' = "on_battery"
    /\ UNCHANGED <<ina219, bus_voltage, current, percent, i, alerts,
                   notify_rc, slept, shutdown_calls>>

\* lines 142-144
OnBattery ==
    /\ pc = "on_battery"
    /\ IF OnBatteryCond(get_power_calc)
          THEN /\ print("No input voltage detected", 0)
               /\ send_alert(Message("on_battery", 0))
          ELSE UNCHANGED <<console, alerts, notify_rc>>
    /\ pc' = "low"
    /\ UNCHANGED <<ina219, bus_voltage, current, percent, battery_percentage,
                   get_power_calc, i, slept, shutdown_calls>>

\* lines 147-149
LowBattery ==
    /\ pc = "low"
    /\ IF LowCond(battery_percentage)
          THEN /\ print("Ran Battery Percentage", 0)
               /\ send_alert(Message("low", 0))
          ELSE UNCHANGED <<console, alerts, notify_rc>>
    /\ pc' = "critical"
    /\ UNCHANGED <<ina219, bus_voltage, current, percent, battery_percentage,
                   get_power_calc, i, slept, shutdown_calls>>

\* lines 155-157: the critical alert and the call of battery_low(), whose
\* range(10, 0, -3) starts at 10.
Critical ==
    /\ pc = "critical"
    /\ IF CriticalCond(battery_percentage)
          THEN /\ send_critical_alert(Message("critical_low", 0))
               /\ i' = CountdownStart
               /\ pc' = "countdown"
          ELSE /\ pc' = "sleep"
               /\ UNCHANGED <<alerts, notify_rc, i>>
    /\ UNCHANGED <<ina219, bus_voltage, current, percent, battery_percentage,
                   get_power_calc, console, slept, shutdown_calls>>

\* battery_low with one iteration too few: range(10, 1, -3).
battery_low_short ==
    /\ pc = "countdown"
    /\ print("Shutting down in N seconds...", i)
    /\ send_alert(Message("countdown", i))
    /\ slept' = slept + CountdownSleep
    /\ i' = i - CountdownStep
    /\ pc' = IF i - CountdownStep > 1 THEN "countdown" ELSE "confirm"
    /\ UNCHANGED <<ina219, bus_voltage, current, percent, battery_percentage,
                   get_power_calc, shutdown_calls>>

\* lines 93-99: one iteration of battery_low's loop over range(10, 0, -3);
\* after the last one the call returns to line 158.
battery_low ==
    /\ pc = "countdown"
    /\ print("Shutting down in N seconds...", i)
    /\ send_alert(Message("countdown", i))
    /\ slept' = slept + CountdownSleep
    /\ i' = i - CountdownStep
    /\ pc' = IF i - CountdownStep > 0 THEN "countdown" ELSE "confirm"
    /\ UNCHANGED <<ina219, bus_voltage, current, percent, battery_percentage,
                   get_power_calc, shutdown_calls>>

\* Confirm without the break of line 161.
Confirm_nobreak ==
    /\ pc = "confirm"
    /\ IF ShutdownCond(battery_percentage, get_power_calc)
          THEN send_critical_alert(Message("final", 0))
          ELSE send_alert(Message("charging", 0))
    /\ pc' = "sleep"
    /\ UNCHANGED <<ina219, bus_voltage, current, percent, battery_percentage,
                   get_power_calc, i, console, slept, shutdown_calls>>

\* Confirm deciding on a fresh sample of the sensor.
Confirm_resample ==
    /\ pc = "confirm"
    /\ IF ShutdownCond(get_battery_percentage(ina219.bus_voltage),
                       PowerCalc(ina219.bus_voltage, ina219.current))
          THEN /\ send_critical_alert(Message("final", 0))
               /\ pc' = "done"
          ELSE /\ send_alert(Message("charging", 0))
               /\ pc' = "sleep"
    /\ UNCHANGED <<ina219, bus_voltage, current, percent, battery_percentage,
                   get_power_calc, i, console, slept, shutdown_calls>>

\* Confirm with the break of line 161 one level out: it ends the loop
\* after the charging alert too.
Confirm_break_always ==
    /\ pc = "confirm"
    /\ IF ShutdownCond(battery_percentage, get_power_calc)
          THEN send_critical_alert(Message("final", 0))
          ELSE send_alert(Message("charging", 0))
    /\ pc' = "done"
    /\ UNCHANGED <<ina219, bus_voltage, current, percent, battery_percentage,
                   get_power_calc, i, console, slept, shutdown_calls>>

\* lines 158-163.  system_shutdown() is commented out (line 160): the
\* branch sends the final alert and leaves the loop, and the script ends
\* without running the shutdown command.
Confirm ==
    /\ pc = "confirm"
    /\ IF ShutdownCond(battery_percentage, get_power_calc)
          THEN /\ send_critical_alert(Message("final", 0))
               /\ pc' = "done"
          ELSE /\ send_alert(Message("charging", 0))
               /\ pc' = "sleep"
    /\ UNCHANGED <<ina219, bus_voltage, current, percent, battery_percentage,
                   get_power_calc, i, console, slept, shutdown_calls>>

\* line 165, then back to the top of the loop.
Sleep ==
    /\ pc = "sleep"
    /\ slept' = slept + battery_check_interval
    /\ pc' = "read"
    /\ UNCHANGED <<ina219, bus_voltage, current, percent, battery_percentage,
                   get_power_calc, i, alerts, console, notify_rc,
                   shutdown_calls>>

Next ==
    \/ SensorChange
    \/ ReadBusVoltage
    \/ ReadCurrent
    \/ ReadOverflow
    \/ OnBattery
    \/ LowBattery
    \/ Critical
    \/ battery_low
    \/ Confirm
    \/ Sleep

Spec == Init /\ [][Next]_vars

\* The script is one sequential process: each statement, sleep and external
\* call returns after a finite time, so the script always takes its next
\* step.  Nothing is assumed of the sensor's changes.
ScriptStep ==
    \/ ReadBusVoltage
    \/ ReadCurrent
    \/ ReadOverflow
    \/ OnBattery
    \/ LowBattery
    \/ Critical
    \/ battery_low
    \/ Confirm
    \/ Sleep

SpecLive == Init /\ [][Next]_vars /\ WF_vars(ScriptStep)

----------------------------------------------------------------------------
\* The notification binary is unavailable: subprocess.run (lines 83, 87)
\* raises FileNotFoundError, which nothing catches, and the script ends with
\* a traceback.  A print() that precedes the call in the same statement
\* group has already happened.

DispatchPending ==
    \/ pc = "on_battery" /\ OnBatteryCond(get_power_calc)
    \/ pc = "low" /\ LowCond(battery_percentage)
    \/ pc = "critical" /\ CriticalCond(battery_percentage)
    \/ pc = "countdown"
    \/ pc = "confirm"

PrintedBeforeDispatch ==
    CASE pc = "on_battery" -> <<Line("No input voltage detected", 0)>>
      [] pc = "low"        -> <<Line("Ran Battery Percentage", 0)>>
      [] pc = "countdown"  -> <<Line("Shutting down in N seconds...", i)>>
      [] OTHER             -> <<>>

NotifyRaises ==
    /\ DispatchPending
    /\ console' = console \o PrintedBeforeDispatch
    /\ pc' = "crashed"
    /\ UNCHANGED <<ina219, bus_voltage, current, percent, battery_percentage,
                   get_power_calc, i, alerts, notify_rc, slept,
                   shutdown_calls>>

\* A read of the sensor fails: the property read of line 111, 112, 113, 114
\* or 131 raises (OSError from the I2C bus), nothing catches it, and the
\* script ends with a traceback.  What the lines before the failing read
\* assigned and printed stays as it is; no line after it runs.

\* The exception swallowed and the cycle run on the values it already had.
SensorRaises_swallowed ==
    /\ pc \in {"read", "read_current", "read_overflow"}
    /\ alerts' = <<>>
    /\ slept' = 0
    /\ console' = <<Line("Percent", 0)>>
    /\ pc' = "on_battery"
    /\ UNCHANGED <<ina219, bus_voltage, current, percent, battery_percentage,
                   get_power_calc, i, notify_rc, shutdown_calls>>

SensorRaises ==
    /\ \/ /\ pc = "read"              \* line 111 raises
          /\ alerts' = <<>>
          /\ console' = <<>>
          /\ slept' = 0
          /\ UNCHANGED current
       \/ /\ pc = "read_current"      \* line 112 or line 113 raises
          /\ UNCHANGED <<alerts, console, slept, current>>
       \/ /\ pc = "read_current"      \* line 114 raises, after line 113
          /\ current' = ina219.current
          /\ UNCHANGED <<alerts, console, slept>>
       \/ /\ pc = "read_overflow"     \* line 131 raises
          /\ UNCHANGED <<alerts, console, slept, current>>
    /\ pc' = "sensor_fault"
    /\ UNCHANGED <<ina219, bus_voltage, percent, battery_percentage,
                   get_power_calc, i, notify_rc, shutdown_calls>>

NextFault == Next \/ NotifyRaises \/ SensorRaises

SpecFault == Init /\ [][NextFault]_vars

----------------------------------------------------------------------------
Kinds == {"on_battery", "low", "critical_low", "countdown", "final", "charging"}

TypeOK ==
    /\ ina219 \in Readings
    /\ pc \in {"read", "read_current", "read_overflow", "on_battery", "low",
               "critical", "countdown", "confirm", "sleep", "done", "crashed",
               "sensor_fault"}
    /\ bus_voltage \in BusVoltages \cup {0}
    /\ current \in Currents
    /\ percent \in 0..Pct(100)
    /\ battery_percentage \in Int
    /\ get_power_calc \in Int
    /\ i \in -2..CountdownStart
    /\ \A k \in DOMAIN alerts :
          /\ alerts[k].class \in {"info", "critical"}
          /\ alerts[k].kind \in Kinds
    /\ notify_rc \in ExitStatuses
    /\ slept \in 0..(4 * CountdownSleep + battery_check_interval)
    /\ shutdown_calls \in Nat

\* An alert of this kind has been sent in the cycle.
Sent(kind) == \E k \in DOMAIN alerts : alerts[k].kind = kind

\* The alert event a console line records.
EventOf(text) ==
    CASE text = "No input voltage detected"     -> "on_battery"
      [] text = "Ran Battery Percentage"        -> "low"
      [] text = "Shutting down in N seconds..." -> "countdown"
      [] OTHER                                  -> "none"

\* The console of the cycle holds a line for this alert.
Printed(a) ==
    \E j \in DOMAIN console :
        EventOf(console[j].text) = a.kind /\ console[j].n = a.n

\* The reads of a cycle are done (lines 111-140 have run): the estimate and
\* the derived power the script holds are those of the values it read.
CycleRead ==
    console # <<>> /\ pc \notin {"read_current", "read_overflow", "sensor_fault"}

\* A cycle has read the sensor and has not been cut short by an exception.
CycleRunning == CycleRead /\ pc # "crashed"

\* What line 158 decides on the values of the sensor as it is now.
FreshShutdownCond ==
    ShutdownCond(get_battery_percentage(ina219.bus_voltage),
                 PowerCalc(ina219.bus_voltage, ina219.current))

----------------------------------------------------------------------------
\* C1: a cycle with estimate <= shutdown threshold and derived power <= -1.0
\* reaches the Shutdown terminal state and the OS shutdown command has then
\* been invoked exactly once.  (Stated as claimed; the script's shutdown
\* call is commented out, so this is violated.)
C1_ShutdownInvokedOnce == pc = "done" => shutdown_calls = 1

\* C2: the estimate that drives the alert and shutdown decisions, and the
\* percentage shown in every alert message, is within [0,100].  (Stated as
\* claimed; only the displayed variable percent is clamped.)
C2_EstimateInRange ==
    /\ battery_percentage >= 0
    /\ battery_percentage <= Pct(100)
    /\ \A k \in DOMAIN alerts : alerts[k].pct >= 0 /\ alerts[k].pct <= 10000

\* C3: once the final shutdown alert has been sent the script is at its end
\* and takes no further step: no sensor read, alert, countdown step or
\* sleep, and the loop is not re-entered.
C3_ShutdownIsTerminal ==
    [][Sent("final") => (pc = "done" /\ UNCHANGED progvars)]_vars

C3_Witness == pc = "done" /\ Sent("final") /\ Sent("countdown")

\* C4: a cycle in the Shutdown Controller with derived power > -1.0 leaves
\* Confirm with the informational "charging" alert and no final alert, goes
\* to the check-interval sleep, and from there to the next sensor read.
C4_PowerRestoredAborts ==
    [][ /\ (pc = "confirm" /\ get_power_calc > ConfirmPower /\ pc' # pc)
            => /\ pc' = "sleep"
               /\ alerts' = Append(alerts, Alert("info", Message("charging", 0)))
               /\ ~Sent("final")'
        /\ (pc = "sleep" /\ ~Sent("final") /\ pc' # pc)
            => /\ pc' = "read"
               /\ slept' = slept + battery_check_interval
        /\ (pc = "read" /\ pc' # pc)
            => /\ pc' = "read_current"
               /\ bus_voltage' = ina219.bus_voltage
      ]_vars

C4_Witness ==
    /\ pc = "sleep"
    /\ battery_percentage = Pct(battery_shutdown)
    /\ get_power_calc > ConfirmPower
    /\ Sent("critical_low")
    /\ Sent("charging")

\* C5: the sleeps between entering the Shutdown Controller and the Confirm
\* evaluation sum to 10 time units.  (Stated as claimed; range(10, 0, -3)
\* makes four iterations of 3 seconds.)
C5_CountdownTotalTen == pc = "confirm" => slept = CountdownStart

\* C6: every countdown alert and the final shutdown alert is sent through
\* the critical class.  (Stated as claimed; battery_low sends each
\* "Shutting down in N" message with send_alert, line 97, the auto-dismissing
\* informational class.)
C6_CountdownCritical ==
    \A k \in DOMAIN alerts :
        alerts[k].kind \in {"countdown", "final"} => alerts[k].class = "critical"

\* C7: between entering the Shutdown Controller and the Confirm decision the
\* values of the cycle's reading are not replaced, and Confirm's outcome is
\* the one these values give, whatever the sensor shows by then.
C7_ConfirmUsesCycleReading ==
    [][ (pc = "countdown" \/ pc = "confirm")
          => /\ UNCHANGED <<bus_voltage, current, battery_percentage, get_power_calc>>
             /\ battery_percentage = get_battery_percentage(bus_voltage)
             /\ get_power_calc = PowerCalc(bus_voltage, current)
             /\ (pc = "confirm" /\ pc' = "done")
                  => ShutdownCond(battery_percentage, get_power_calc)
             /\ (pc = "confirm" /\ pc' = "sleep")
                  => ~ShutdownCond(battery_percentage, get_power_calc)
      ]_vars

\* The script has shut down although the sensor showed power restored
\* (or a recovered voltage) when Confirm ran.
C7_Witness == pc = "done" /\ Sent("final") /\ ~FreshShutdownCond

\* C8 as claimed: in a cycle whose bus voltage is V_full the estimate is
\* 100 and no alert is sent, whatever the current is.
C8_FullNoAlerts ==
    (CycleRead /\ bus_voltage = VFull)
      => (battery_percentage = Pct(100) /\ alerts = <<>>)

\* C8 as amended: in a cycle whose bus voltage is V_full the estimate is
\* 100 and the only alert the cycle can send is the running-on-battery
\* alert, and that only when the derived power is <= -5.0 (a cycle that
\* gets past line 144 with such a power has sent it); it never enters the
\* Shutdown Controller.
C8_FullOnlyOnBattery ==
    (CycleRead /\ bus_voltage = VFull)
      => /\ battery_percentage = Pct(100)
         /\ percent = Pct(100)
         /\ \A k \in DOMAIN alerts :
               alerts[k].kind = "on_battery" /\ alerts[k].pct = 10000
         /\ Sent("on_battery") => OnBatteryCond(get_power_calc)
         /\ (pc \in {"low", "critical", "sleep", "read"}
               /\ OnBatteryCond(get_power_calc)) => Sent("on_battery")
         /\ pc \notin {"countdown", "confirm", "done"}

C8_Witness ==
    /\ bus_voltage = VFull
    /\ pc = "sleep"
    /\ Len(alerts) = 1
    /\ Sent("on_battery")

\* C9: a failure of the notification mechanism on an alert dispatch does
\* not end the monitor loop.  (Stated as claimed; an unavailable binary
\* makes subprocess.run raise, and the script ends.)
C9_NotifyFailureNonFatal == pc # "crashed"

\* C10: every alert sent in a cycle has a line on the console in that cycle.
\* (Stated as claimed; the critically-low, final and charging alerts are
\* sent without any print.)
C10_AlertsOnConsole == \A k \in DOMAIN alerts : Printed(alerts[k])


----------------------------------------------------------------------------
\* What a cycle does as a function of its bus voltage (mV) and current (mA)
\* alone, written from the thresholds the claims state: estimate <= 25 and
\* <= 10 (%), derived power <= -5.0 and <= -1.0 (W).

CycleEstimate(v) == (v - 3000) * 100
CyclePower(v, c) == v * c
CycleShutsDown(v, c) ==
    CycleEstimate(v) <= 10 * 1100 /\ CyclePower(v, c) <= -1000000

CycleAlert(v, class, kind, n) ==
    [class |-> class, kind |-> kind, pct |-> Fmt2(CycleEstimate(v)), n |-> n]

\* The alerts of the three threshold steps, in the order of the loop body.
OnBatteryAlerts(v, c) ==
    IF CyclePower(v, c) <= -5000000
       THEN <<CycleAlert(v, "info", "on_battery", 0)>> ELSE <<>>
LowAlerts(v) ==
    IF CycleEstimate(v) <= 25 * 1100
       THEN <<CycleAlert(v, "info", "low", 0)>> ELSE <<>>
ControllerAlerts(v, c) ==
    IF CycleEstimate(v) <= 10 * 1100
       THEN <<CycleAlert(v, "critical", "critical_low", 0),
              CycleAlert(v, "info", "countdown", 10),
              CycleAlert(v, "info", "countdown", 7),
              CycleAlert(v, "info", "countdown", 4),
              CycleAlert(v, "info", "countdown", 1),
              IF CycleShutsDown(v, c)
                 THEN CycleAlert(v, "critical", "final", 0)
                 ELSE CycleAlert(v, "info", "charging", 0)>>
       ELSE <<>>

\* All the alerts of a cycle that runs to its end.
CycleAlerts(v, c) ==
    OnBatteryAlerts(v, c) \o LowAlerts(v) \o ControllerAlerts(v, c)

\* How many of them have been sent when the script is at pc.
AlertsSentAt(v, c) ==
    LET n1 == Len(OnBatteryAlerts(v, c))
        n2 == n1 + Len(LowAlerts(v))
    IN  CASE pc = "on_battery" -> 0
          [] pc = "low"        -> n1
          [] pc = "critical"   -> n2
          [] pc = "countdown"  -> n2 + 1 + ((10 - i) \div 3)
          [] pc = "confirm"    -> n2 + 5
          [] OTHER             -> Len(CycleAlerts(v, c))

OverflowLine == Line("Internal Math Overflow Detected!", 0)
OverflowReported == \E j \in DOMAIN console : console[j] = OverflowLine

----------------------------------------------------------------------------
\* C11: the overflow flag does not interfere with control.  At every point
\* of a cycle the alerts sent so far, the position in the countdown and the
\* shutdown decision are those given by the cycle's bus voltage and current
\* alone (so two runs that read the same voltages and currents send the
\* same alerts and decide alike, whatever their overflow flags), and the
\* flag read at line 131 changes nothing but the console, where it shows as
\* the overflow warning.
C11_OverflowNoInterference ==
    /\ [](CycleRunning =>
            /\ alerts = SubSeq(CycleAlerts(bus_voltage, current), 1,
                               AlertsSentAt(bus_voltage, current))
            /\ pc = "done" => CycleShutsDown(bus_voltage, current)
            /\ pc \in {"sleep", "read"} => ~CycleShutsDown(bus_voltage, current))
    /\ [][(pc = "read_overflow" /\ pc' # pc /\ pc' # "sensor_fault") =>
            /\ pc' = "on_battery"
            /\ UNCHANGED <<bus_voltage, current, alerts, slept>>
            /\ battery_percentage' = CycleEstimate(bus_voltage)
            /\ get_power_calc' = CyclePower(bus_voltage, current)
            /\ OverflowReported' <=> ina219.overflow
            /\ console' = IF ina219.overflow
                             THEN Append(console, OverflowLine)
                             ELSE console]_vars

\* A cycle that read a set overflow flag went through the whole Shutdown
\* Controller and shut down.
C11_Witness ==
    /\ pc = "done"
    /\ OverflowReported
    /\ Len(alerts) = 8

\* C12: when a sensor read fails, the script ends before any decision step
\* of that cycle, with no alert, sleep or shutdown in it, and takes no
\* further step; the decision steps are reached only through the reads of
\* lines 111, 113 and 131 of the same cycle, each of which went through, and
\* they decide on the bus voltage and current these reads returned, never
\* on those of an earlier cycle.
C12_SensorFaultStopsCycle ==
    [][ /\ (pc = "read" /\ pc' # pc)
            => \/ pc' = "read_current" /\ bus_voltage' = ina219.bus_voltage
               \/ pc' = "sensor_fault"
        /\ (pc = "read_current" /\ pc' # pc)
            => \/ /\ pc' = "read_overflow"
                  /\ current' = ina219.current
                  /\ bus_voltage' = bus_voltage
               \/ pc' = "sensor_fault"
        /\ (pc = "read_overflow" /\ pc' # pc)
            => \/ /\ pc' = "on_battery"
                  /\ UNCHANGED <<bus_voltage, current>>
                  /\ battery_percentage' = CycleEstimate(bus_voltage)
                  /\ get_power_calc' = CyclePower(bus_voltage, current)
               \/ pc' = "sensor_fault"
        /\ (pc' = "on_battery" /\ pc' # pc) => pc = "read_overflow"
        /\ (pc' = "sensor_fault" /\ pc' # pc)
            => /\ alerts' = <<>>
               /\ slept' = 0
               /\ UNCHANGED <<battery_percentage, get_power_calc, notify_rc,
                              shutdown_calls>>
        /\ pc = "sensor_fault" => UNCHANGED progvars
      ]_vars

\* The read of the overflow flag failed in a cycle that had read a bus
\* voltage at or below the shutdown threshold after a cycle above it:
\* the readings are printed and nothing was sent.
C12_Witness ==
    /\ pc = "sensor_fault"
    /\ console = <<Line("Percent", 0)>>
    /\ CriticalCond(get_battery_percentage(bus_voltage))
    /\ ~LowCond(battery_percentage)
    /\ battery_percentage # 0
    /\ alerts = <<>>

\* C13: as long as sensor reads and external calls return, the loop runs
\* until Shutdown: the script is always eventually at the sensor read or in
\* the Shutdown terminal state, and a cycle that did not shut down leaves
\* its last step only by the check-interval sleep, to the sensor read.
C13_LoopRunsUntilShutdown ==
    /\ []<>(pc = "read" \/ (pc = "done" /\ Sent("final")))
    /\ [][(pc = "sleep" /\ pc' # pc)
            => (pc' = "read" /\ slept' = slept + battery_check_interval)]_vars

\* The next read is due after a cycle that counted down, found power
\* restored and slept the check interval.
C13_Witness ==
    /\ pc = "read"
    /\ Sent("charging")
    /\ slept = 4 * CountdownSleep + battery_check_interval

\* C14: the threshold actions fire exactly on their inclusive thresholds.
\* Once a cycle is past line 147 it has sent the low-battery alert if and
\* only if its estimate is <= 25; the step of line 155 enters the Shutdown
\* Controller (critically-low alert, countdown) if and only if the estimate
\* is <= 10 and goes to the check-interval sleep otherwise; the derived
\* power has no part in either.
C14_InclusiveThresholds ==
    /\ [](CycleRunning =>
            /\ pc \in {"critical", "countdown", "confirm", "sleep", "done", "read"}
                 => (Sent("low") <=> CycleEstimate(bus_voltage) <= 25 * 1100)
            /\ pc \in {"countdown", "confirm", "sleep", "done", "read"}
                 => (Sent("critical_low") <=> CycleEstimate(bus_voltage) <= 10 * 1100)
            /\ pc \in {"countdown", "confirm", "done"}
                 => CycleEstimate(bus_voltage) <= 10 * 1100)
    /\ [][(pc = "critical" /\ pc' # pc) =>
            /\ pc' = "countdown" <=> CycleEstimate(bus_voltage) <= 10 * 1100
            /\ pc' = "sleep" <=> CycleEstimate(bus_voltage) > 10 * 1100]_vars

\* An estimate of exactly 10 % has entered the countdown, with the
\* low-battery alert sent, although the derived power is above -1.0.
C14_Witness ==
    /\ pc = "countdown"
    /\ CycleEstimate(bus_voltage) = 10 * 1100
    /\ CyclePower(bus_voltage, current) > -1000000
    /\ Sent("low")
    /\ Sent("critical_low")

\* The alerts of the cycle from the critically-low alert on, each as
\* <<kind, N>>.
ControllerEvents ==
    LET from == CHOOSE k \in DOMAIN alerts : alerts[k].kind = "critical_low"
    IN  [k \in 1..(Len(alerts) - from + 1) |->
            <<alerts[from + k - 1].kind, alerts[from + k - 1].n>>]

CountdownEvents ==
    <<<<"critical_low", 0>>, <<"countdown", 10>>, <<"countdown", 7>>,
      <<"countdown", 4>>, <<"countdown", 1>>>>

\* C15: each entry into the Shutdown Controller produces one critical
\* "critically low" alert, then the countdown alerts N = 10, 7, 4, 1, each
\* followed by a sleep of 3, then exactly one of: the final critical alert
\* with the loop ended, or the informational charging alert with the
\* check-interval sleep next.
C15_ControllerSequence ==
    (CycleRunning /\ Sent("critical_low")) =>
        LET ev == ControllerEvents
            n  == Len(ev)
        IN  /\ Cardinality({k \in DOMAIN alerts : alerts[k].kind = "critical_low"}) = 1
            /\ \A k \in DOMAIN alerts :
                  alerts[k].kind = "critical_low" => alerts[k].class = "critical"
            /\ n <= 6
            /\ SubSeq(ev, 1, IF n < 5 THEN n ELSE 5) = SubSeq(CountdownEvents, 1, IF n < 5 THEN n ELSE 5)
            /\ pc = "countdown" => (n < 5 /\ i = 10 - 3 * (n - 1) /\ slept = 3 * (n - 1))
            /\ pc = "confirm" => (n = 5 /\ slept = 3 * 4)
            /\ pc \in {"countdown", "confirm"} => ~Sent("final") /\ ~Sent("charging")
            /\ pc \in {"done", "sleep", "read"} =>
                  /\ n = 6
                  /\ Sent("final") # Sent("charging")
            /\ pc = "done" =>
                  /\ ev[6] = <<"final", 0>>
                  /\ alerts[Len(alerts)].class = "critical"
                  /\ slept = 3 * 4
            /\ pc = "sleep" =>
                  /\ ev[6] = <<"charging", 0>>
                  /\ alerts[Len(alerts)].class = "info"
                  /\ slept = 3 * 4
            /\ pc = "read" =>
                  /\ ev[6] = <<"charging", 0>>
                  /\ slept = 3 * 4 + battery_check_interval
            /\ pc \in {"countdown", "confirm", "done", "sleep", "read"}

C15_Witness ==
    /\ pc = "read"
    /\ Sent("critical_low")
    /\ Sent("charging")
    /\ Len(alerts) = 7

\* C16: the running-on-battery alert and the charging alert are never both
\* sent in one cycle; a cycle with derived power <= -5.0 and estimate <= 10
\* sends the running-on-battery alert and never gets to the check-interval
\* sleep: it ends in the Shutdown terminal state.
C16_OnBatteryNeverCharging ==
    /\ ~(Sent("on_battery") /\ Sent("charging"))
    /\ (CycleRunning
          /\ CyclePower(bus_voltage, current) <= -5000000
          /\ CycleEstimate(bus_voltage) <= 10 * 1100)
        => /\ pc \in {"on_battery", "low", "critical", "countdown", "confirm", "done"}
           /\ pc # "on_battery" => Sent("on_battery")
           /\ pc = "done" => Sent("final")

C16_Witness ==
    /\ pc = "done"
    /\ Sent("on_battery")
    /\ Sent("final")
    /\ CyclePower(bus_voltage, current) <= -5000000

\* C17: cycles are memoryless.  Every cycle starts with no alert sent and
\* reads its bus voltage and current anew from the sensor, the estimate and
\* the derived power it decides on are computed from these two, and at its
\* end the alerts it has sent and its outcome (continue
\* or Shutdown) are those given by its own bus voltage and current,
\* whatever the earlier cycles were: the low-battery alert is sent again in
\* every cycle with estimate <= 25, also after an aborted shutdown.
C17_Memoryless ==
    /\ []((CycleRunning /\ pc \in {"sleep", "done", "read"}) =>
            /\ alerts = CycleAlerts(bus_voltage, current)
            /\ pc = "done" <=> CycleShutsDown(bus_voltage, current)
            /\ CycleEstimate(bus_voltage) <= 25 * 1100 => Sent("low"))
    /\ [][ /\ (pc = "read" /\ pc' # pc) =>
               /\ pc' = "read_current"
               /\ alerts' = <<>>
               /\ slept' = 0
               /\ bus_voltage' = ina219.bus_voltage
           /\ (pc = "read_current" /\ pc' # pc) =>
               /\ pc' = "read_overflow"
               /\ current' = ina219.current
           /\ (pc = "read_overflow" /\ pc' # pc) =>
               /\ pc' = "on_battery"
               /\ alerts' = <<>>
               /\ battery_percentage' = CycleEstimate(bus_voltage')
               /\ get_power_calc' = CyclePower(bus_voltage', current')]_vars

\* A cycle after an aborted shutdown (a countdown has run, not in this
\* cycle) that sent the low-battery alert again and nothing else.
C17_Witness ==
    /\ pc = "sleep"
    /\ i = 10 - 4 * CountdownStep
    /\ ~Sent("critical_low")
    /\ Sent("low")
    /\ Len(alerts) = 1

=============================================================================
